---- MODULE Spec2Model ----
(***************************************************************************)
(* 7am: daily weather summaries pushed to web-push subscribers.            *)
(* A model of main.go: the subscription registry (database rows and the    *)
(* in-memory buckets of state.subscriptions), the summary cache, the       *)
(* scheduled updateSummary runs and the per-location dispatcher            *)
(* listenForSummaryUpdates.                                                *)
(***************************************************************************)
EXTENDS Integers, Sequences, FiniteSets, TLC

\* ------------------------------------------------------------------ bounds
MaxListLen == 2        \* length of a locations / removeLocations list of a request
MaxRequests == 2       \* Spec: registration requests served in one behaviour
MaxTicks == 1          \* Spec: scheduler firings in one behaviour, all locations together
GenRequests == 1       \* SpecGen: registration requests served in one behaviour
GenTicks == 2          \* SpecGen: scheduler firings in one behaviour
ShutdownRequests == 1  \* SpecShutdown: registration requests served in one behaviour
ShutdownTicks == 2     \* SpecShutdown: scheduler firings in one behaviour
RegistryRequests == 3  \* SpecRegistry: registration requests served in one behaviour
StartupRows == 1       \* SpecStartup: rows of the table when the process starts
StartupTicks == 2      \* SpecStartup: scheduler firings in one behaviour
RemovalRequests == 2   \* SpecRemoval: registration requests served in one behaviour
RemovalTicks == 1      \* SpecRemoval: scheduler firings in one behaviour
LockRequests == 2      \* SpecLock: registration requests served in one behaviour
LockTicks == 1         \* SpecLock: scheduler firings in one behaviour
MalformedRequests == 2  \* SpecMalformed: registration requests served in one behaviour
MalformedTicks == 1     \* SpecMalformed: scheduler firings in one behaviour
FailureRequests == 2    \* SpecFailure: registration requests served in one behaviour
KeyRequests == 2        \* SpecKeys: registration requests served in one behaviour
RestartRequests == 2    \* SpecRestart: registration requests served in one behaviour
ConcurrentRequests == 3 \* SpecConcurrent: registration requests served in one behaviour
ConcurrentListLen == 1 \* SpecConcurrent: length of the lists of a PATCH
LongListLen == 3       \* SpecLists: length of the locations list of a POST
ListRequests == 2      \* SpecLists: registration requests served in one behaviour

\* ------------------------------------------------------------------ values
Locations == {"nyc", "tokyo"}          \* keys of supportedLocations
EmptyKey == ""                         \* the zero string
UnknownKey == "paris"                  \* a string that is no key of supportedLocations
Keys == Locations \cup {EmptyKey, UnknownKey}  \* keys state.subscriptions can hold
Caps == {"capA", "capB"}               \* webpush.Subscription values
Texts == {"A", "B"}                    \* texts the summarization returns
\* no row with this id (a stored text has at least one field)
NoRow == [locations |-> <<>>, json |-> "none"]
\* the nil *registeredSubscription
Nil == [id |-> 0, cap |-> "nil", locs |-> <<>>]
Absent == "absent"

RECURSIVE SeqsUpTo(_, _)
SeqsUpTo(S, n) ==
  IF n = 0 THEN {<<>>}
  ELSE LET shorter == SeqsUpTo(S, n - 1)
       IN shorter \cup {Append(s, x) : s \in {t \in shorter : Len(t) = n - 1}, x \in S}

\* the lists of location keys a request body can carry
LocLists == SeqsUpTo(Locations, MaxListLen)

Contains(s, x) == \E i \in 1..Len(s) : s[i] = x
Count(s, x) == Cardinality({i \in 1..Len(s) : s[i] = x})

RECURSIVE Zeros(_, _)
Zeros(n, z) == IF n = 0 THEN <<>> ELSE <<z>> \o Zeros(n - 1, z)

\* ------------------------------------------------------------------ slices
\* slices.Compact: drops an element equal to its predecessor
RECURSIVE Compact(_)
Compact(s) ==
  IF Len(s) < 2 THEN s
  ELSE LET front == Compact(SubSeq(s, 1, Len(s) - 1))
       IN IF s[Len(s)] = s[Len(s) - 1] THEN front ELSE Append(front, s[Len(s)])

\* what slices.Compact leaves in the slice it was given: the compacted
\* elements, then the obsolete tail cleared to the zero value (go 1.22+)
CompactInPlace(s) == Compact(s) \o Zeros(Len(s) - Len(Compact(s)), EmptyKey)

\* slices.DeleteFunc(locs, l in removeLocations)
RECURSIVE DeleteContained(_, _)
DeleteContained(s, del) ==
  IF s = <<>> THEN <<>>
  ELSE IF Contains(del, Head(s)) THEN DeleteContained(Tail(s), del)
       ELSE <<Head(s)>> \o DeleteContained(Tail(s), del)

\* strings.Join(locs, ","): the stored text, as its comma-separated fields
StringsJoin(locs) == IF locs = <<>> THEN <<EmptyKey>> ELSE locs

\* strings.Split(locStr, ","): one element per field, one field for ""
StringsSplit(str) == str

\* a bucket is a slice: arr is the backing array (Len(arr) its capacity),
\* len the slice length; cells from len+1 on are Nil
EmptyBucket == [arr |-> <<>>, len |-> 0]
Elems(b) == SubSeq(b.arr, 1, b.len)

GrowCap(c) == IF c = 0 THEN 1 ELSE 2 * c

\* append(bucket, reg): in place when capacity allows, else a new array
AppendSub(b, reg) ==
  IF b.len < Len(b.arr)
  THEN [arr |-> [b.arr EXCEPT ![b.len + 1] = reg], len |-> b.len + 1]
  ELSE [arr |-> Elems(b) \o <<reg>> \o Zeros(GrowCap(Len(b.arr)) - b.len - 1, Nil),
        len |-> b.len + 1]

\* TRUE when append(bucket, reg) allocates a new backing array
Reallocates(b) == b.len >= Len(b.arr)

RECURSIVE WithoutId(_, _)
WithoutId(s, id) ==
  IF s = <<>> THEN <<>>
  ELSE IF Head(s).id = id THEN WithoutId(Tail(s), id)
       ELSE <<Head(s)>> \o WithoutId(Tail(s), id)

\* slices.DeleteFunc(bucket, s.ID == reg.ID): shifts in place, clears the tail
DeleteSub(b, id) ==
  LET kept == WithoutId(Elems(b), id)
  IN [arr |-> kept \o Zeros(Len(b.arr) - Len(kept), Nil), len |-> Len(kept)]

\* what a mutation of bucket l does to the slice a fan-out round of l took:
\* the round's slice shares the bucket's array until append moves the bucket
\* to a new array, and from then on keeps the old array as it was
Detach(st, l) ==
  IF l \in Locations /\ st.snap[l].shared /\ Reallocates(st.subs[l])
  THEN [st.snap EXCEPT ![l] = [shared |-> FALSE, len |-> st.snap[l].len,
                               arr |-> SubSeq(st.subs[l].arr, 1, st.snap[l].len)]]
  ELSE st.snap

RECURSIVE AppendEach(_, _, _)
\* for _, l := range ls { subscriptions[l] = append(subscriptions[l], reg) }
AppendEach(st, ls, reg) ==
  IF ls = <<>> THEN st
  ELSE AppendEach([subs |-> [st.subs EXCEPT ![Head(ls)] = AppendSub(st.subs[Head(ls)], reg)],
                   snap |-> Detach(st, Head(ls))],
                  Tail(ls), reg)

RECURSIVE DeleteEach(_, _, _)
\* for _, l := range ls { subscriptions[l] = slices.DeleteFunc(subscriptions[l], ...) }
DeleteEach(st, ls, id) ==
  IF ls = <<>> THEN st
  ELSE DeleteEach([subs |-> [st.subs EXCEPT ![Head(ls)] = DeleteSub(st.subs[Head(ls)], id)],
                   snap |-> st.snap],
                  Tail(ls), id)

\* ------------------------------------------------------------------- state
VARIABLES
  db,             \* the subscriptions table: db[id] is the row of id, or NoRow
  reqs,           \* registration requests (POST, PATCH, DELETE) served so far
  subscriptions,  \* state.subscriptions: key -> bucket
  summaries,      \* state.summaries: location -> text or Absent
  stored,         \* history: what the cache held for a location after each store, in order
  ticks,          \* scheduler firings so far
  runs,           \* the updateSummary calls so far, per location, in starting order
  disp,           \* listenForSummaryUpdates of each location
  snap,           \* the slice subs of the round in progress, per location
  calls,          \* webpush.SendNotificationWithContext calls of the round in progress
  crashed,        \* a goroutine panicked: the process is gone
  req,            \* the body of the last registration request
  resp,           \* the answer to the last registration request
  ctxDone,        \* state.ctx is cancelled
  loaded,         \* loadSubscriptions has returned
  subscriptionsMutex, \* state.subscriptionsMutex, and the call that holds it
  updateCalls,    \* the updateRegisteredSubscription calls taken step by step
  previous        \* the buckets the process before this one held when it ended

vars == <<db, reqs, subscriptions, summaries, stored, ticks, runs, disp, snap, calls, crashed,
          req, resp, ctxDone, loaded, subscriptionsMutex, updateCalls,
          previous>>
registryVars == <<db, reqs, subscriptions, req, resp>>
lifeVars == <<ctxDone, loaded, subscriptionsMutex, updateCalls, previous>>
cacheVars == <<summaries, stored>>
pipelineVars == <<cacheVars, ticks, runs, disp, calls>>

NoSnap == [shared |-> FALSE, len |-> 0, arr |-> <<>>]
\* updateSubscription: the decoded body of a registration request
Body(locations, removeLocations) ==
  [locations |-> locations, removeLocations |-> removeLocations, idOk |-> TRUE, decoded |-> TRUE]
\* a request as the handler finds it: uuid.Parse accepts its id or not, Decode
\* its body or not
Request(body, idOk, bodyOk) == [body EXCEPT !.idOk = idOk, !.decoded = bodyOk]
NoBody == Body(<<>>, <<>>)
\* what the handler of a registration request wrote
Response(op, id, status, locations) ==
  [op |-> op, id |-> id, status |-> status, locations |-> locations]
NoResponse == Response("", 0, "", <<>>)
\* the mutex when no call holds it
Unlocked == [held |-> FALSE, op |-> "", reg |-> Nil, todo |-> <<>>, del |-> <<>>, touches |-> {}]
Listening == [pc |-> "listen", payload |-> [summary |-> "", location |-> ""],
              i |-> 1, read |-> <<>>, pending |-> {}, startDb |-> <<>>]

Init ==
  /\ db = <<>>
  /\ reqs = 0
  /\ subscriptions = [k \in Keys |-> EmptyBucket]
  /\ summaries = [l \in Locations |-> Absent]
  /\ stored = [l \in Locations |-> <<>>]
  /\ ticks = 0
  /\ runs = [l \in Locations |-> <<>>]
  /\ disp = [l \in Locations |-> Listening]
  /\ snap = [l \in Locations |-> NoSnap]
  /\ calls = [l \in Locations |-> <<>>]
  /\ crashed = FALSE
  /\ req = NoBody
  /\ resp = NoResponse
  /\ ctxDone = FALSE
  /\ loaded = TRUE
  /\ subscriptionsMutex = Unlocked
  /\ updateCalls = <<>>
  /\ previous = [k \in Keys |-> <<>>]

Ids == 1..Len(db)
\* the ids a request can name: those given out so far and one never given out
RequestIds == 1..(Len(db) + 1)
\* SELECT ... WHERE id = ?: the row of id, if any
Row(d, id) == IF id \in 1..Len(d) THEN d[id] ELSE NoRow

\* errors of database/sql
ErrNoRows == "sql: no rows in result set"
ErrRowsClosed == "sql: Rows are closed"
NoError == ""
\* rows.Next(); rows.Scan(&locStr): with no row, Next closes the rows and Scan
\* returns the error of closed rows
RowsScan(row) == IF row = NoRow THEN ErrRowsClosed ELSE NoError
\* DELETE FROM subscriptions WHERE id = ?: no error, whatever the rows affected
ExecDelete(row) == NoError
\* the status the PATCH and DELETE handlers answer an error with
ErrorStatus(err) == IF err = ErrNoRows THEN "StatusNotFound" ELSE "StatusInternalServerError"

\* ---------------------------------------------------------------- registry
\* registerSubscription(state, sub)
registerSubscription(cap, locations) ==
  LET id == Len(db) + 1
      locs == Compact(locations)
      reg == [id |-> id, cap |-> cap, locs |-> locs]
      st == AppendEach([subs |-> subscriptions, snap |-> snap], CompactInPlace(locations), reg)
  IN /\ ~subscriptionsMutex.held
     /\ db' = Append(db, [locations |-> StringsJoin(locs), json |-> cap])
     /\ subscriptions' = st.subs
     /\ snap' = st.snap
     /\ resp' = Response("POST", id, "StatusOK", locs)
     /\ UNCHANGED <<pipelineVars, crashed, lifeVars>>

\* updateRegisteredSubscription(state, id, update): rows.Scan fails when id has
\* no row; else the row is rewritten and the buckets are changed
updateRegisteredSubscription(id, cap, locations, removeLocations) ==
  IF RowsScan(Row(db, id)) # NoError
  THEN /\ resp' = Response("PATCH", id, ErrorStatus(RowsScan(Row(db, id))), <<>>)
       /\ UNCHANGED <<db, subscriptions, snap, pipelineVars, crashed, lifeVars>>
  ELSE LET locs == Compact(DeleteContained(StringsSplit(db[id].locations) \o locations,
                                           removeLocations))
           reg == [id |-> id, cap |-> cap, locs |-> locs]
           st == DeleteEach(AppendEach([subs |-> subscriptions, snap |-> snap], locations, reg),
                            removeLocations, id)
       IN /\ ~subscriptionsMutex.held
          /\ db' = [db EXCEPT ![id] = [locations |-> StringsJoin(locs), json |-> cap]]
          /\ subscriptions' = st.subs
          /\ snap' = st.snap
          /\ resp' = Response("PATCH", id, "StatusOK", locs)
          /\ UNCHANGED <<pipelineVars, crashed, lifeVars>>

\* an error of the database itself
ErrDb == "database is locked"
\* what state.db.Query and state.db.Exec can return
DbErrors == {NoError, ErrDb}

\* InsertFailed that never sees the error
InsertFailedIgnored(err) == FALSE

\* if err != nil after the INSERT of registerSubscription
InsertFailed(err) == err # NoError

\* registerSubscription(state, sub) when the INSERT returns execErr: with an
\* error no row is written, the call returns the error and the handler
\* answers StatusBadRequest
registerSubscriptionErr(cap, locations, execErr) ==
  LET id == Len(db) + 1
      locs == Compact(locations)
      reg == [id |-> id, cap |-> cap, locs |-> locs]
      st == AppendEach([subs |-> subscriptions, snap |-> snap], CompactInPlace(locations), reg)
  IN /\ ~subscriptionsMutex.held
     /\ db' = IF execErr = NoError
              THEN Append(db, [locations |-> StringsJoin(locs), json |-> cap])
              ELSE db
     /\ IF InsertFailed(execErr)
        THEN /\ resp' = Response("POST", 0, "StatusBadRequest", <<>>)
             /\ UNCHANGED <<subscriptions, snap>>
        ELSE /\ subscriptions' = st.subs
             /\ snap' = st.snap
             /\ resp' = Response("POST", id, "StatusOK", locs)
     /\ UNCHANGED <<pipelineVars, crashed, lifeVars>>

\* updateRegisteredSubscription(state, id, update) when the SELECT returns
\* queryErr and the UPDATE execErr: the call returns the first error it meets,
\* before the row is written or after the write failed, and always before
\* Lock()
updateRegisteredSubscriptionErr(id, cap, locations, removeLocations, queryErr, execErr) ==
  LET readErr == IF queryErr # NoError THEN queryErr ELSE RowsScan(Row(db, id))
      err == IF readErr # NoError THEN readErr ELSE execErr
  IN IF err # NoError
     THEN /\ resp' = Response("PATCH", id, ErrorStatus(err), <<>>)
          /\ UNCHANGED <<db, subscriptions, snap, pipelineVars, crashed, lifeVars>>
     ELSE updateRegisteredSubscription(id, cap, locations, removeLocations)

\* deleteSubscription(state, regID): DELETE FROM subscriptions WHERE id = ?
deleteSubscription(id) ==
  /\ db' = IF id \in Ids THEN [db EXCEPT ![id] = NoRow] ELSE db
  /\ resp' = IF ExecDelete(Row(db, id)) # NoError
             THEN Response("DELETE", id, ErrorStatus(ExecDelete(Row(db, id))), <<>>)
             ELSE Response("DELETE", id, "StatusNoContent", <<>>)
  /\ UNCHANGED <<subscriptions, snap, pipelineVars, crashed, lifeVars>>

\* the call that has taken the mutex: the appends and deletions it has yet to
\* make, and the keys of the buckets its critical section changes
Locked(op, reg, todo, del) ==
  [held |-> TRUE, op |-> op, reg |-> reg, todo |-> todo, del |-> del,
   touches |-> {todo[n] : n \in 1..Len(todo)} \cup {del[n] : n \in 1..Len(del)}]

\* registerSubscription up to state.subscriptionsMutex.Lock(): the row is
\* inserted and the mutex taken; the appends to the buckets are still to come
registerLock(cap, locations) ==
  LET id == Len(db) + 1
      locs == Compact(locations)
      reg == [id |-> id, cap |-> cap, locs |-> locs]
  IN /\ ~subscriptionsMutex.held
     /\ db' = Append(db, [locations |-> StringsJoin(locs), json |-> cap])
     /\ subscriptionsMutex' = Locked("POST", reg, CompactInPlace(locations), <<>>)
     /\ UNCHANGED <<subscriptions, snap, resp, pipelineVars, crashed, ctxDone, loaded, updateCalls, previous>>

\* updateRegisteredSubscription of an id that has a row, up to
\* state.subscriptionsMutex.Lock(): the row is rewritten and the mutex taken
updateLock(id, cap, locations, removeLocations) ==
  LET locs == Compact(DeleteContained(StringsSplit(db[id].locations) \o locations,
                                      removeLocations))
      reg == [id |-> id, cap |-> cap, locs |-> locs]
  IN /\ ~subscriptionsMutex.held
     /\ db' = [db EXCEPT ![id] = [locations |-> StringsJoin(locs), json |-> cap]]
     /\ subscriptionsMutex' = Locked("PATCH", reg, locations, removeLocations)
     /\ UNCHANGED <<subscriptions, snap, resp, pipelineVars, crashed, ctxDone, loaded, updateCalls, previous>>

\* updateRegisteredSubscription of an id that has a row, as far as rows.Close():
\* the call has read the stored list of the row
updateQuery(id, cap, locations, removeLocations) ==
  /\ updateCalls' = Append(updateCalls,
                           [id |-> id, cap |-> cap, locations |-> locations,
                            removeLocations |-> removeLocations,
                            locStr |-> db[id].locations, pc |-> "scanned"])
  /\ UNCHANGED <<db, subscriptions, snap, resp, pipelineVars, crashed, ctxDone, loaded,
                 subscriptionsMutex, previous>>

\* the list call c computes from what it read
UpdatedLocs(c) ==
  Compact(DeleteContained(StringsSplit(c.locStr) \o c.locations, c.removeLocations))

\* call n goes on to its UPDATE: the row of its id is rewritten with the list
\* computed from what the call read; with no row left, no row is changed and
\* no error is returned
updateExec(n) ==
  LET c == updateCalls[n]
  IN /\ c.pc = "scanned"
     /\ db' = IF db[c.id] = NoRow THEN db
              ELSE [db EXCEPT ![c.id] = [locations |-> StringsJoin(UpdatedLocs(c)),
                                         json |-> c.cap]]
     /\ updateCalls' = [updateCalls EXCEPT ![n].pc = "written"]
     /\ UNCHANGED <<subscriptions, snap, resp, pipelineVars, crashed, ctxDone, loaded,
                    subscriptionsMutex, previous>>

\* call n takes the mutex
updateLockAfterExec(n) ==
  LET c == updateCalls[n]
  IN /\ c.pc = "written"
     /\ ~subscriptionsMutex.held
     /\ subscriptionsMutex' = Locked("PATCH", [id |-> c.id, cap |-> c.cap, locs |-> UpdatedLocs(c)],
                                     c.locations, c.removeLocations)
     /\ updateCalls' = [updateCalls EXCEPT ![n].pc = "locked"]
     /\ UNCHANGED <<db, subscriptions, snap, resp, pipelineVars, crashed, ctxDone, loaded, previous>>

\* one iteration of a loop between Lock() and Unlock(): the append to the bucket
\* of the next location, and after the appends the deletion from the bucket of
\* the next removed location
criticalStep ==
  LET m == subscriptionsMutex
      st0 == [subs |-> subscriptions, snap |-> snap]
      st == IF m.todo # <<>> THEN AppendEach(st0, <<Head(m.todo)>>, m.reg)
            ELSE DeleteEach(st0, <<Head(m.del)>>, m.reg.id)
  IN /\ m.held
     /\ m.todo # <<>> \/ m.del # <<>>
     /\ subscriptions' = st.subs
     /\ snap' = st.snap
     /\ subscriptionsMutex' = IF m.todo # <<>> THEN [m EXCEPT !.todo = Tail(m.todo)]
                              ELSE [m EXCEPT !.del = Tail(m.del)]
     /\ UNCHANGED <<db, resp, pipelineVars, crashed, ctxDone, loaded, updateCalls, previous>>

\* state.subscriptionsMutex.Unlock() and the return to the handler, which
\* answers the request
unlock ==
  LET m == subscriptionsMutex
  IN /\ m.held
     /\ m.todo = <<>>
     /\ m.del = <<>>
     /\ subscriptionsMutex' = Unlocked
     /\ resp' = Response(m.op, m.reg.id, "StatusOK", m.reg.locs)
     /\ updateCalls' = [n \in 1..Len(updateCalls) |->
                          IF updateCalls[n].pc = "locked"
                          THEN [updateCalls[n] EXCEPT !.pc = "returned"]
                          ELSE updateCalls[n]]
     /\ UNCHANGED <<db, subscriptions, snap, pipelineVars, crashed, ctxDone, loaded, previous>>

\* loadSubscriptions: for each row of the table, in order, a registration is
\* built from it and appended to the bucket of every field of its locations
RECURSIVE LoadRows(_, _, _)
LoadRows(st, d, id) ==
  IF id > Len(d) THEN st
  ELSE IF d[id] = NoRow THEN LoadRows(st, d, id + 1)
  ELSE LoadRows(AppendEach(st, StringsSplit(d[id].locations),
                           [id |-> id, cap |-> d[id].json,
                            locs |-> StringsSplit(d[id].locations)]),
                d, id + 1)

loadSubscriptions ==
  /\ ~crashed
  /\ ~loaded
  /\ loaded' = TRUE
  /\ LET st == LoadRows([subs |-> subscriptions, snap |-> snap], db, 1)
     IN subscriptions' = st.subs /\ snap' = st.snap
  /\ UNCHANGED <<db, reqs, req, resp, pipelineVars, crashed, ctxDone, subscriptionsMutex, updateCalls, previous>>

\* --------------------------------------------------------------- generator
\* badStatus: the weather API answered this run with a status that is not 2xx
Run(pc, err, summary) == [pc |-> pc, err |-> err, summary |-> summary, badStatus |-> FALSE]
\* the runs of l that have not returned
Running(l) == {r \in 1..Len(runs[l]) : runs[l][r].pc # "done"}

\* Tick with one scheduler for all the locations, which starts a job only
\* when no job of any location is running
TickSerialized(l) ==
  /\ ~crashed
  /\ \A k \in Locations : Running(k) = {}
  /\ ticks' = ticks + 1
  /\ runs' = [runs EXCEPT ![l] = Append(@, Run("fetch", "", ""))]
  /\ UNCHANGED <<lifeVars, registryVars, cacheVars, disp, snap, calls, crashed>>

\* the scheduler fires the job of location l: updateSummary(state, l, loc)
\* starts and sends its request to the weather API
Tick(l) ==
  /\ ~crashed
  /\ ticks' = ticks + 1
  /\ runs' = [runs EXCEPT ![l] = Append(@, Run("fetch", "", ""))]
  /\ UNCHANGED <<lifeVars, registryVars, cacheVars, disp, snap, calls, crashed>>

\* http.DefaultClient.Do / io.ReadAll return to run r of l, with or without an error
FetchReturns(l, r, failed) ==
  /\ ~crashed
  /\ runs[l][r].pc = "fetch"
  /\ runs' = [runs EXCEPT ![l][r] = Run("fetched", IF failed THEN "fetch" ELSE "", "")]
  /\ UNCHANGED <<lifeVars, registryVars, cacheVars, ticks, disp, snap, calls, crashed>>

\* http.DefaultClient.Do returns to run r of l a response with a status that
\* is not 2xx, which is no error, and io.ReadAll reads its body
FetchReturnsStatus(l, r) ==
  /\ ~crashed
  /\ runs[l][r].pc = "fetch"
  /\ runs' = [runs EXCEPT ![l][r] = [Run("fetched", "", "") EXCEPT !.badStatus = TRUE]]
  /\ UNCHANGED <<lifeVars, registryVars, cacheVars, ticks, disp, snap, calls, crashed>>

\* OnFetched with the error check left out
OnFetchedUnchecked(run) == Run("generate", "", "")

\* updateSummary after the fetch: log and return on an error, else call
\* GenerateContent
OnFetched(run) ==
  IF run.err # "" THEN Run("done", run.err, "") ELSE Run("generate", "", "")

AfterFetch(l, r) ==
  /\ ~crashed
  /\ runs[l][r].pc = "fetched"
  /\ runs' = [runs EXCEPT ![l][r] = OnFetched(@)]
  /\ UNCHANGED <<lifeVars, registryVars, cacheVars, ticks, disp, snap, calls, crashed>>

\* GenerateContent returns to run r of l: an error, or a result with a text
GenerateReturns(l, r, failed, text) ==
  /\ ~crashed
  /\ runs[l][r].pc = "generate"
  /\ runs' = [runs EXCEPT ![l][r] =
                IF failed THEN Run("generated", "generate", "") ELSE Run("generated", "", text)]
  /\ UNCHANGED <<lifeVars, registryVars, cacheVars, ticks, disp, snap, calls, crashed>>

\* Store that keeps an entry already there
StoreIfAbsent(cache, l, text) == IF cache[l] = Absent THEN [cache EXCEPT ![l] = text] ELSE cache

\* state.summaries.Store(locKey, summary)
Store(cache, l, text) == [cache EXCEPT ![l] = text]

\* state.summaries.Load(path)
Load(cache, l) == cache[l]

\* OnGenerated with the error check left out: the text of the failed result,
\* the empty text, is stored and sent
OnGeneratedUnchecked(run, l, cache, count) ==
  [run |-> IF count > 0 THEN Run("send", "", run.summary) ELSE Run("done", "", ""),
   cache |-> [cache EXCEPT ![l] = run.summary]]

\* OnGenerated with the send before the store, which is still to come
OnGeneratedSendFirst(run, l, cache, count) ==
  IF run.err # ""
  THEN [run |-> Run("done", run.err, ""), cache |-> cache]
  ELSE [run |-> IF count > 0 THEN Run("send", "", run.summary) ELSE Run("done", "", ""),
        cache |-> cache]

\* updateSummary after GenerateContent, up to the send on the channel: what
\* becomes of the run and of the cache
OnGenerated(run, l, cache, count) ==
  IF run.err # ""
  THEN [run |-> Run("done", run.err, ""), cache |-> cache]
  ELSE [run |-> IF count > 0 THEN Run("send", "", run.summary) ELSE Run("done", "", ""),
        cache |-> Store(cache, l, run.summary)]

AfterGenerate(l, r) ==
  /\ ~crashed
  /\ runs[l][r].pc = "generated"
  /\ LET next == OnGenerated(runs[l][r], l, summaries, subscriptions[l].len)
     IN /\ runs' = [runs EXCEPT ![l][r] = next.run]
        /\ summaries' = next.cache
        /\ stored' = IF next.run.err = ""
                     THEN [stored EXCEPT ![l] = Append(@, Load(next.cache, l))]
                     ELSE stored
  /\ UNCHANGED <<lifeVars, registryVars, ticks, disp, snap, calls, crashed>>

\* -------------------------------------------------------------- dispatcher
\* the slice subs as the round of l sees it now
View(l) ==
  IF snap[l].shared THEN SubSeq(subscriptions[l].arr, 1, snap[l].len) ELSE snap[l].arr

\* webpushNotificationPayload{Summary: summary, Location: locKey}
Payload(summary, l) == [summary |-> summary, location |-> l]

\* case summary := <-c: the dispatcher of l takes the summary run r is sending,
\* builds the payload and takes subs := state.subscriptions[locKey]; the send
\* of run r returns, and so does run r
\* Receive with a dispatcher that takes the mutex for the whole round
ReceiveLocking(l, r) ==
  /\ ~crashed
  /\ disp[l].pc = "listen"
  /\ runs[l][r].pc = "send"
  /\ ~subscriptionsMutex.held
  /\ subscriptionsMutex' = Locked("round", Nil, <<>>, <<>>)
  /\ runs' = [runs EXCEPT ![l][r] = Run("done", "", "")]
  /\ disp' = [disp EXCEPT ![l] = [pc |-> "round", payload |-> Payload(runs[l][r].summary, l),
                                  i |-> 1, read |-> <<>>, pending |-> {}, startDb |-> db]]
  /\ snap' = [snap EXCEPT ![l] = [shared |-> TRUE, len |-> subscriptions[l].len, arr |-> <<>>]]
  /\ calls' = [calls EXCEPT ![l] = <<>>]
  /\ UNCHANGED <<ctxDone, loaded, updateCalls, registryVars, cacheVars, ticks, crashed, previous>>

Receive(l, r) ==
  /\ ~crashed
  /\ disp[l].pc = "listen"
  /\ runs[l][r].pc = "send"
  /\ runs' = [runs EXCEPT ![l][r] = Run("done", "", "")]
  /\ disp' = [disp EXCEPT ![l] = [pc |-> "round", payload |-> Payload(runs[l][r].summary, l),
                                  i |-> 1, read |-> <<>>, pending |-> {}, startDb |-> db]]
  /\ snap' = [snap EXCEPT ![l] = [shared |-> TRUE, len |-> subscriptions[l].len, arr |-> <<>>]]
  /\ calls' = [calls EXCEPT ![l] = <<>>]
  /\ UNCHANGED <<lifeVars, registryVars, cacheVars, ticks, crashed>>

\* one iteration of for _, sub := range subs: wg.Add(1) and go func() {...}()
Spawn(l) ==
  /\ ~crashed
  /\ disp[l].pc = "round"
  /\ disp[l].i <= snap[l].len
  /\ disp' = [disp EXCEPT ![l].read = Append(@, View(l)[disp[l].i]),
                          ![l].pending = @ \cup {disp[l].i},
                          ![l].i = @ + 1]
  /\ UNCHANGED <<lifeVars, registryVars, cacheVars, ticks, runs, snap, calls, crashed>>

\* AfterSend that gives the round up at the first failed delivery
AfterSendAbort(d, j, ok) ==
  IF ok THEN [d EXCEPT !.pending = @ \ {j}] ELSE [d EXCEPT !.pending = {}]

\* the goroutine of iteration j after SendNotificationWithContext returned:
\* an error is logged, and wg.Done() runs either way
AfterSend(d, j, ok) == [d EXCEPT !.pending = @ \ {j}]

\* the goroutine of iteration j runs: SendNotificationWithContext(ctx, b,
\* sub.Subscription, &opts) returns with or without an error; a nil sub panics
Deliver(l, j, ok) ==
  /\ ~crashed
  /\ j \in disp[l].pending
  /\ IF disp[l].read[j] = Nil
     THEN /\ crashed' = TRUE
          /\ UNCHANGED <<disp, calls>>
     ELSE /\ calls' = [calls EXCEPT ![l] =
                         Append(@, [id |-> disp[l].read[j].id, cap |-> disp[l].read[j].cap,
                                    payload |-> disp[l].payload, ok |-> ok])]
          /\ disp' = [disp EXCEPT ![l] = AfterSend(@, j, ok)]
          /\ UNCHANGED crashed
  /\ UNCHANGED <<lifeVars, registryVars, cacheVars, ticks, runs, snap>>

\* RoundComplete without wg.Wait(): every goroutine is spawned
RoundCompleteNoWait(l) ==
  /\ disp[l].pc = "round"
  /\ disp[l].i > snap[l].len

\* every goroutine of the round of l is spawned and has returned
RoundComplete(l) ==
  /\ disp[l].pc = "round"
  /\ disp[l].i > snap[l].len
  /\ disp[l].pending = {}

\* wg.Wait() returns and the dispatcher of l is back at the select
RoundDone(l) ==
  /\ ~crashed
  /\ RoundComplete(l)
  /\ disp' = [disp EXCEPT ![l] = Listening]
  /\ snap' = [snap EXCEPT ![l] = NoSnap]
  /\ calls' = [calls EXCEPT ![l] = <<>>]
  /\ UNCHANGED <<lifeVars, registryVars, cacheVars, ticks, runs, crashed>>

\* case <-state.ctx.Done() can proceed: the dispatcher is at its select and
\* the context is cancelled
SelectDoneAnywhere(d, done) == done

SelectDone(d, done) == done /\ d.pc = "listen"

\* case <-state.ctx.Done(): return
Exit(l) ==
  /\ ~crashed
  /\ SelectDone(disp[l], ctxDone)
  /\ disp' = [disp EXCEPT ![l].pc = "exited"]
  /\ UNCHANGED <<lifeVars, registryVars, cacheVars, ticks, runs, snap, calls, crashed>>

\* main returns, after ListenAndServe has and the schedulers are shut down:
\* the deferred cancel() runs
Cancel ==
  /\ ~crashed
  /\ loaded
  /\ ~ctxDone
  /\ ctxDone' = TRUE
  /\ UNCHANGED <<loaded, subscriptionsMutex, updateCalls, registryVars, pipelineVars, snap, crashed, previous>>

\* ------------------------------------------------------------ the system
\* POST /registrations
Register(maxRequests) ==
  /\ ~crashed
  /\ loaded
  /\ reqs < maxRequests
  /\ reqs' = reqs + 1
  /\ \E cap \in Caps, ls \in LocLists :
       registerSubscription(cap, ls) /\ req' = Body(ls, <<>>)

\* POST /registrations with a list long enough to name a key, another key and
\* the first key again
RegisterLong(maxRequests) ==
  /\ ~crashed
  /\ loaded
  /\ reqs < maxRequests
  /\ reqs' = reqs + 1
  /\ \E cap \in Caps, ls \in SeqsUpTo(Locations, LongListLen) :
       registerSubscription(cap, ls) /\ req' = Body(ls, <<>>)

\* PATCH /registrations/<id>
Update(maxRequests) ==
  /\ ~crashed
  /\ loaded
  /\ reqs < maxRequests
  /\ reqs' = reqs + 1
  /\ \E id \in RequestIds, cap \in Caps, ls \in LocLists, rs \in LocLists :
       updateRegisteredSubscription(id, cap, ls, rs) /\ req' = Body(ls, rs)

\* POST /registrations, as far as the Lock() of registerSubscription
RegisterLocked(maxRequests) ==
  /\ ~crashed
  /\ loaded
  /\ reqs < maxRequests
  /\ reqs' = reqs + 1
  /\ \E cap \in Caps, ls \in LocLists :
       registerLock(cap, ls) /\ req' = Body(ls, <<>>)

\* PATCH /registrations/<id> of an id that has a row, as far as the Lock() of
\* updateRegisteredSubscription
UpdateLocked(maxRequests) ==
  /\ ~crashed
  /\ loaded
  /\ reqs < maxRequests
  /\ reqs' = reqs + 1
  /\ \E id \in Ids, cap \in Caps, ls \in LocLists, rs \in LocLists :
       /\ Row(db, id) # NoRow
       /\ updateLock(id, cap, ls, rs)
       /\ req' = Body(ls, rs)

\* PATCH /registrations/<id> of an id that has a row, as far as the read of the
\* row in updateRegisteredSubscription
UpdateQuery(maxRequests) ==
  /\ ~crashed
  /\ loaded
  /\ reqs < maxRequests
  /\ reqs' = reqs + 1
  /\ \E id \in Ids, cap \in Caps :
     \E ls \in SeqsUpTo(Locations, ConcurrentListLen), rs \in SeqsUpTo(Locations, ConcurrentListLen) :
       /\ Row(db, id) # NoRow
       /\ updateQuery(id, cap, ls, rs)
       /\ req' = Body(ls, rs)

\* an update call that has read its row writes it
UpdateExec ==
  /\ ~crashed
  /\ \E n \in 1..Len(updateCalls) : updateExec(n)
  /\ UNCHANGED <<reqs, req>>

\* an update call that has written its row takes the mutex
UpdateLockAfterExec ==
  /\ ~crashed
  /\ \E n \in 1..Len(updateCalls) : updateLockAfterExec(n)
  /\ UNCHANGED <<reqs, req>>

\* the call that holds the mutex makes its next change to a bucket
CriticalSection ==
  /\ ~crashed
  /\ criticalStep
  /\ UNCHANGED <<reqs, req>>

\* the call that holds the mutex releases it and its request is answered
Unlock ==
  /\ ~crashed
  /\ unlock
  /\ UNCHANGED <<reqs, req>>

\* Rejection without the check of the error of Decode
RejectionNoDecodeCheck(method, idOk, bodyOk) ==
  IF method \in {"PATCH", "DELETE"} /\ ~idOk THEN "StatusNotFound" ELSE ""

\* the status handleHTTPRequest answers with before it calls the registry, ""
\* when it goes on: uuid.Parse fails on the id of a PATCH or DELETE, or
\* Decode fails on the body of a POST or PATCH
Rejection(method, idOk, bodyOk) ==
  IF method \in {"PATCH", "DELETE"} /\ ~idOk THEN "StatusNotFound"
  ELSE IF method \in {"POST", "PATCH"} /\ ~bodyOk THEN "StatusBadRequest"
  ELSE ""

\* the handler of /registrations: a request that is rejected is answered at
\* once; any other goes to the registry, with the zero body when Decode failed
handleHTTPRequest(method, idOk, id, bodyOk, cap, locations, removeLocations) ==
  LET ls == IF bodyOk THEN locations ELSE <<>>
      rs == IF bodyOk THEN removeLocations ELSE <<>>
  IN IF Rejection(method, idOk, bodyOk) # ""
     THEN /\ resp' = Response(method, 0, Rejection(method, idOk, bodyOk), <<>>)
          /\ req' = Request(NoBody, idOk, bodyOk)
          /\ UNCHANGED <<db, subscriptions, snap, pipelineVars, crashed, lifeVars>>
     ELSE /\ req' = Request(IF method = "DELETE" THEN NoBody ELSE Body(ls, rs), idOk, bodyOk)
          /\ IF method = "POST" THEN registerSubscription(cap, ls)
             ELSE IF method = "PATCH" THEN updateRegisteredSubscription(id, cap, ls, rs)
             ELSE deleteSubscription(id)

\* a request to /registrations, well-formed or not
Handle(maxRequests) ==
  /\ ~crashed
  /\ loaded
  /\ reqs < maxRequests
  /\ reqs' = reqs + 1
  /\ \E method \in {"POST", "PATCH", "DELETE"}, idOk \in BOOLEAN, bodyOk \in BOOLEAN :
     \E id \in RequestIds, cap \in Caps, ls \in LocLists, rs \in LocLists :
       /\ method = "POST" => idOk
       /\ method = "DELETE" => bodyOk
       /\ handleHTTPRequest(method, idOk, id, bodyOk, cap, ls, rs)

\* POST /registrations on a database whose INSERT can fail
RegisterErr(maxRequests) ==
  /\ ~crashed
  /\ loaded
  /\ reqs < maxRequests
  /\ reqs' = reqs + 1
  /\ \E cap \in Caps, ls \in LocLists, execErr \in DbErrors :
       registerSubscriptionErr(cap, ls, execErr) /\ req' = Body(ls, <<>>)

\* PATCH /registrations/<id> on a database whose SELECT and UPDATE can fail
UpdateErr(maxRequests) ==
  /\ ~crashed
  /\ loaded
  /\ reqs < maxRequests
  /\ reqs' = reqs + 1
  /\ \E id \in RequestIds, cap \in Caps, ls \in LocLists, rs \in LocLists :
     \E queryErr \in DbErrors, execErr \in DbErrors :
       /\ updateRegisteredSubscriptionErr(id, cap, ls, rs, queryErr, execErr)
       /\ req' = Body(ls, rs)

\* POST /registrations with a list of any strings
RegisterAny(maxRequests) ==
  /\ ~crashed
  /\ loaded
  /\ reqs < maxRequests
  /\ reqs' = reqs + 1
  /\ \E cap \in Caps, ls \in SeqsUpTo(Keys, MaxListLen) :
       registerSubscription(cap, ls) /\ req' = Body(ls, <<>>)

\* PATCH /registrations/<id> with lists of any strings
UpdateAny(maxRequests) ==
  /\ ~crashed
  /\ loaded
  /\ reqs < maxRequests
  /\ reqs' = reqs + 1
  /\ \E id \in RequestIds, cap \in Caps :
     \E ls \in SeqsUpTo(Keys, MaxListLen), rs \in SeqsUpTo(Keys, MaxListLen) :
       updateRegisteredSubscription(id, cap, ls, rs) /\ req' = Body(ls, rs)

\* DELETE /registrations/<id>
Delete(maxRequests) ==
  /\ ~crashed
  /\ loaded
  /\ reqs < maxRequests
  /\ reqs' = reqs + 1
  /\ \E id \in RequestIds : deleteSubscription(id) /\ req' = NoBody

\* the scheduler of a location fires
Schedule(maxTicks) == ticks < maxTicks /\ ~ctxDone /\ \E l \in Locations : Tick(l)

\* the steps of the updateSummary calls
SomeFetchReturns ==
  \E l \in Locations : \E r \in 1..Len(runs[l]) : \E failed \in BOOLEAN : FetchReturns(l, r, failed)
SomeFetchReturnsStatus ==
  \E l \in Locations : \E r \in 1..Len(runs[l]) : FetchReturnsStatus(l, r)
SomeAfterFetch == \E l \in Locations : \E r \in 1..Len(runs[l]) : AfterFetch(l, r)
SomeGenerateReturns ==
  \E l \in Locations : \E r \in 1..Len(runs[l]) : \E failed \in BOOLEAN, text \in Texts :
    GenerateReturns(l, r, failed, text)
SomeAfterGenerate == \E l \in Locations : \E r \in 1..Len(runs[l]) : AfterGenerate(l, r)

\* the steps of the dispatchers and of their goroutines
SomeReceive == \E l \in Locations : \E r \in 1..Len(runs[l]) : Receive(l, r)
SomeSpawn == \E l \in Locations : Spawn(l)
SomeDeliver == \E l \in Locations : \E j \in disp[l].pending, ok \in BOOLEAN : Deliver(l, j, ok)
SomeRoundDone == \E l \in Locations : RoundDone(l)
SomeExit == \E l \in Locations : Exit(l)

Generate == SomeFetchReturns \/ SomeFetchReturnsStatus \/ SomeAfterFetch \/ SomeGenerateReturns \/ SomeAfterGenerate
Dispatch == SomeReceive \/ SomeSpawn \/ SomeDeliver \/ SomeRoundDone

\* the whole server
Next ==
  \/ Register(MaxRequests) \/ Update(MaxRequests) \/ Delete(MaxRequests)
  \/ Schedule(MaxTicks) \/ Generate \/ Dispatch

Spec == Init /\ [][Next]_vars

\* the generator and the dispatchers, with registrations but no other request
NextGen == Register(GenRequests) \/ Schedule(GenTicks) \/ Generate \/ Dispatch

SpecGen == Init /\ [][NextGen]_vars

\* the registration requests alone
NextRegistry ==
  Register(RegistryRequests) \/ Update(RegistryRequests) \/ Delete(RegistryRequests)

SpecRegistry == Init /\ [][NextRegistry]_vars

\* the server up to and after the cancellation of its context
NextShutdown ==
  \/ Register(ShutdownRequests) \/ Schedule(ShutdownTicks) \/ Generate \/ Dispatch
  \/ Cancel \/ SomeExit

\* the goroutines keep running, the calls they wait for return, and a select
\* with a case that can proceed again and again takes it in the end
Fairness ==
  /\ WF_vars(SomeFetchReturns \/ SomeFetchReturnsStatus) /\ WF_vars(SomeAfterFetch)
  /\ WF_vars(SomeGenerateReturns) /\ WF_vars(SomeAfterGenerate)
  /\ WF_vars(SomeSpawn) /\ WF_vars(SomeDeliver) /\ WF_vars(SomeRoundDone)
  /\ \A l \in Locations : SF_vars(\E r \in 1..Len(runs[l]) : Receive(l, r))
  /\ \A l \in Locations : SF_vars(Exit(l))

SpecShutdown == Init /\ [][NextShutdown]_vars /\ Fairness

\* the goroutines of location l keep running and the calls they wait for return
FairAt(l) ==
  /\ WF_vars(\E r \in 1..Len(runs[l]) : \E failed \in BOOLEAN : FetchReturns(l, r, failed))
  /\ WF_vars(\E r \in 1..Len(runs[l]) : AfterFetch(l, r))
  /\ WF_vars(\E r \in 1..Len(runs[l]) : \E failed \in BOOLEAN, text \in Texts :
               GenerateReturns(l, r, failed, text))
  /\ WF_vars(\E r \in 1..Len(runs[l]) : AfterGenerate(l, r))
  /\ SF_vars(\E r \in 1..Len(runs[l]) : Receive(l, r))
  /\ WF_vars(Spawn(l))
  /\ WF_vars(\E j \in disp[l].pending, ok \in BOOLEAN : Deliver(l, j, ok))
  /\ WF_vars(RoundDone(l))

\* the location whose calls to the outside may never return
Blocked == "nyc"

\* the generators and the dispatchers when the fetches, summarizations and
\* deliveries of one location may block for ever and those of the others return
SpecIndependent ==
  Init /\ [][NextGen]_vars /\ \A l \in Locations \ {Blocked} : FairAt(l)

\* the rows a registration writes
StoredRows ==
  {[locations |-> StringsJoin(Compact(ls)), json |-> cap] : ls \in LocLists, cap \in Caps}

\* the process starts on a table written by a process before it: the
\* schedulers and the dispatchers are started, the table is not loaded yet
InitStartup ==
  /\ db \in SeqsUpTo(StoredRows, StartupRows)
  /\ reqs = 0
  /\ subscriptions = [k \in Keys |-> EmptyBucket]
  /\ summaries = [l \in Locations |-> Absent]
  /\ stored = [l \in Locations |-> <<>>]
  /\ ticks = 0
  /\ runs = [l \in Locations |-> <<>>]
  /\ disp = [l \in Locations |-> Listening]
  /\ snap = [l \in Locations |-> NoSnap]
  /\ calls = [l \in Locations |-> <<>>]
  /\ crashed = FALSE
  /\ req = NoBody
  /\ resp = NoResponse
  /\ ctxDone = FALSE
  /\ loaded = FALSE
  /\ subscriptionsMutex = Unlocked
  /\ updateCalls = <<>>
  /\ previous = [k \in Keys |-> <<>>]

NextStartup == loadSubscriptions \/ Schedule(StartupTicks) \/ Generate \/ Dispatch

SpecStartup == InitStartup /\ [][NextStartup]_vars

\* one registration with a longer list, updates, and the rounds after them
NextRemoval ==
  \/ RegisterLong(1) \/ Update(RemovalRequests)
  \/ Schedule(RemovalTicks) \/ Generate \/ Dispatch

SpecRemoval == Init /\ [][NextRemoval]_vars

\* registrations and updates whose critical sections are taken step by step,
\* beside the generators and the dispatchers
NextLock ==
  \/ RegisterLocked(LockRequests) \/ UpdateLocked(LockRequests) \/ CriticalSection \/ Unlock
  \/ Schedule(LockTicks) \/ Generate \/ Dispatch

SpecLock == Init /\ [][NextLock]_vars

\* one registration, and update calls whose read of the row, write of the row
\* and critical section are steps of their own
NextConcurrent ==
  \/ Register(1) \/ UpdateQuery(ConcurrentRequests) \/ UpdateExec \/ UpdateLockAfterExec
  \/ CriticalSection \/ Unlock

SpecConcurrent == Init /\ [][NextConcurrent]_vars

\* the process ends and main runs again on the table it left: the state is
\* built anew, the schedulers and the dispatchers are started, the table is
\* not loaded yet
Restart ==
  /\ loaded
  /\ previous' = [k \in Keys |-> Elems(subscriptions[k])]
  /\ subscriptions' = [k \in Keys |-> EmptyBucket]
  /\ summaries' = [l \in Locations |-> Absent]
  /\ stored' = [l \in Locations |-> <<>>]
  /\ runs' = [l \in Locations |-> <<>>]
  /\ disp' = [l \in Locations |-> Listening]
  /\ snap' = [l \in Locations |-> NoSnap]
  /\ calls' = [l \in Locations |-> <<>>]
  /\ crashed' = FALSE
  /\ req' = NoBody
  /\ resp' = NoResponse
  /\ ctxDone' = FALSE
  /\ loaded' = FALSE
  /\ subscriptionsMutex' = Unlocked
  /\ updateCalls' = <<>>
  /\ UNCHANGED <<db, reqs, ticks>>

\* the registration requests, and restarts of the process
NextRestart ==
  \/ Register(RestartRequests) \/ Update(RestartRequests) \/ Delete(RestartRequests)
  \/ Restart \/ loadSubscriptions

SpecRestart == Init /\ [][NextRestart]_vars

\* registrations and updates that name any strings as locations
NextKeys == RegisterAny(KeyRequests) \/ UpdateAny(KeyRequests)

SpecKeys == Init /\ [][NextKeys]_vars

\* the whole server, with requests that are not well-formed
NextMalformed ==
  Handle(MalformedRequests) \/ Schedule(MalformedTicks) \/ Generate \/ Dispatch

SpecMalformed == Init /\ [][NextMalformed]_vars

\* registrations and updates on a database whose statements can fail
NextFailure == RegisterErr(FailureRequests) \/ UpdateErr(FailureRequests)

SpecFailure == Init /\ [][NextFailure]_vars

\* registrations with longer lists, and updates
NextLists == RegisterLong(ListRequests) \/ Update(ListRequests)

SpecLists == Init /\ [][NextLists]_vars

\* ------------------------------------------------------------- properties
\* id has a row in table d whose stored location list names l
RegisteredFor(d, id, l) ==
  /\ id \in 1..Len(d)
  /\ d[id] # NoRow
  /\ Contains(StringsSplit(d[id].locations), l)

\* the entries of bucket l that belong to id
EntriesOf(l, id) == {n \in 1..subscriptions[l].len : subscriptions[l].arr[n].id = id}

\* the calls of the round of l that went to id
CallsTo(l, id) == {n \in 1..Len(calls[l]) : calls[l][n].id = id}

\* C1: after every register, update and remove call, the bucket of each
\* location holds exactly the subscriptions whose stored location list names
\* it, each once
C1_RegistryConsistency ==
  \A l \in Locations : \A id \in Ids :
    Cardinality(EntriesOf(l, id)) = IF RegisteredFor(db, id, l) THEN 1 ELSE 0

\* C2: a round that started after remove(id) returned makes no delivery call
\* to id
C2_NoDeliveryAfterDelete ==
  \A l \in Locations : \A n \in 1..Len(calls[l]) :
    ~(calls[l][n].id \in 1..Len(disp[l].startDb) /\ disp[l].startDb[calls[l][n].id] = NoRow)

\* C3: no two updateSummary runs of one location are in progress at once
C3_AtMostOneRunning == \A l \in Locations : Cardinality(Running(l)) <= 1

\* the goroutines of the round of l that were spawned with sub and have returned
Returned(l, sub) ==
  {j \in 1..Len(disp[l].read) : j \notin disp[l].pending /\ disp[l].read[j] = sub}

\* the calls of the round of l made with the id and the capability of sub
CallsWith(l, sub) ==
  {n \in 1..Len(calls[l]) : calls[l][n].id = sub.id /\ calls[l][n].cap = sub.cap}

\* every goroutine spawned so far is still to run or has made its one call,
\* whatever the other calls returned
AttemptsKept(l) ==
  /\ disp[l].pending \subseteq 1..Len(disp[l].read)
  /\ Len(disp[l].read) = disp[l].i - 1
  /\ Len(calls[l]) = Len(disp[l].read) - Cardinality(disp[l].pending)
  /\ \A j \in 1..Len(disp[l].read) :
       Cardinality(CallsWith(l, disp[l].read[j])) >=
         Cardinality(Returned(l, disp[l].read[j]))

\* C4: a failed delivery drops no other delivery of the round and does not end
\* the round: every goroutine spawned gets to make its call, and the round
\* ends only when all the subscribers of its list have had theirs
C4_FanOutIsolation ==
  /\ [](\A l \in Locations : disp[l].pc = "round" => AttemptsKept(l))
  /\ [][\A l \in Locations :
          (disp[l].pc = "round" /\ disp'[l].pc = "listen") =>
            (disp[l].pending = {} /\ Len(calls[l]) = snap[l].len)]_vars

\* C4 witness: a round of two subscribers is complete, the first call failed
\* and the call to the other subscriber, made after it, succeeded
C4_Witness ==
  \E l \in Locations :
    /\ RoundComplete(l)
    /\ Len(calls[l]) = 2
    /\ ~calls[l][1].ok
    /\ calls[l][2].ok
    /\ calls[l][1].id # calls[l][2].id

\* C5: in a round each subscription registered for the location gets one
\* delivery attempt, and none gets two
C5_OneAttemptPerSubscriber ==
  \A l \in Locations : \A id \in Ids :
    /\ Cardinality(CallsTo(l, id)) <= 1
    /\ (RoundComplete(l) /\ RegisteredFor(disp[l].startDb, id, l)) =>
         Cardinality(CallsTo(l, id)) = 1

\* C6: a subscriber registered for l gets exactly one call in the round of a
\* generation for l, and every call of the round carries the summary of that
\* generation and the location l
C6_RegistrationThenDelivery ==
  \A l \in Locations :
    /\ \A n \in 1..Len(calls[l]) :
         /\ calls[l][n].payload = disp[l].payload
         /\ calls[l][n].payload.location = l
         /\ calls[l][n].payload.summary \in Texts
    /\ RoundComplete(l) =>
         \A id \in Ids : RegisteredFor(disp[l].startDb, id, l) =>
           Cardinality(CallsTo(l, id)) = 1

\* C7: a subscriber registered for l1 and l2 gets, from a generation for l2,
\* exactly one call, with location l2; no call names a location no generation
\* ran for
C7_MultiLocation ==
  \A l1 \in Locations, l2 \in Locations :
    /\ (Len(runs[l1]) = 0) =>
         \A n \in 1..Len(calls[l2]) : calls[l2][n].payload.location # l1
    /\ (l1 # l2 /\ RoundComplete(l2)) =>
         \A id \in Ids :
           (RegisteredFor(disp[l2].startDb, id, l1) /\ RegisteredFor(disp[l2].startDb, id, l2)) =>
             /\ Cardinality(CallsTo(l2, id)) = 1
             /\ \A n \in CallsTo(l2, id) : calls[l2][n].payload.location = l2

\* run r of l takes a step
Steps(l, r) == runs'[l][r] # runs[l][r]

C9_FailedSummarization ==
  [][\A l \in Locations : \A r \in 1..Len(runs[l]) :
       (runs[l][r].pc = "generated" /\ runs[l][r].err = "generate" /\ Steps(l, r)) =>
         /\ runs'[l][r].pc = "done"
         /\ summaries' = summaries
         /\ disp' = disp
         /\ calls' = calls]_vars

\* C9 witness: a run of l has returned after a failed summarization, where l
\* has a subscriber and a summary stored by an earlier run
C9_Witness ==
  \E l \in Locations : \E r \in 1..Len(runs[l]) :
    /\ runs[l][r] = Run("done", "generate", "")
    /\ Load(summaries, l) \in Texts
    /\ subscriptions[l].len > 0
    /\ disp[l].pc = "listen"

\* C10: the store of a run of l leaves load(l) returning the text of that run,
\* whatever was stored before, and changes the entry of no other location
C10_CacheOverwrite ==
  [][\A l \in Locations : \A r \in 1..Len(runs[l]) :
       (runs[l][r].pc = "generated" /\ runs[l][r].err = "" /\ Steps(l, r)) =>
         /\ Load(summaries', l) = runs[l][r].summary
         /\ \A m \in Locations \ {l} : Load(summaries', m) = Load(summaries, m)]_vars

\* C10 witness: "A" was stored for l (the run that stored it is sending it),
\* then "B" was, and load(l) is "B"
C10_Witness ==
  \E l \in Locations : \E r \in 1..Len(runs[l]) :
    /\ runs[l][r] = Run("send", "", "A")
    /\ Load(summaries, l) = "B"

\* the entries of bucket l of index subs that belong to id
EntriesIn(subs, l, id) == {n \in 1..subs[l].len : subs[l].arr[n].id = id}

\* this step is a POST that registered a subscription
RegisterStep == resp'.op = "POST" /\ reqs' = reqs + 1 /\ Len(db') = Len(db) + 1

\* C11: a register call stores a location list that names each key at most
\* once and leaves at most one entry of the new subscription in each bucket,
\* whatever duplicates its locations list had
C11_RegisterNormalizes ==
  [][RegisterStep =>
       \A l \in Locations :
         /\ Count(StringsSplit(db'[resp'.id].locations), l) <= 1
         /\ Count(resp'.locations, l) <= 1
         /\ Cardinality(EntriesIn(subscriptions', l, resp'.id)) <= 1]_vars

\* s without the elements that appeared earlier in it
RECURSIVE Dedup(_)
Dedup(s) ==
  IF s = <<>> THEN <<>>
  ELSE LET front == Dedup(SubSeq(s, 1, Len(s) - 1))
       IN IF Contains(front, s[Len(s)]) THEN front ELSE Append(front, s[Len(s)])

\* (existing \cup addLocations) \ removeLocations, in order of first appearance
SetUpdate(existing, addLocations, removeLocations) ==
  Dedup(DeleteContained(existing \o addLocations, removeLocations))

\* C12: an update that succeeds persists and returns
\* (existing \cup addLocations) \ removeLocations, deduplicated, in order of
\* first appearance
C12_UpdateSetAlgebra ==
  [][\A id \in Ids, cap \in Caps, ls \in LocLists, rs \in LocLists :
       (updateRegisteredSubscription(id, cap, ls, rs) /\ resp'.status = "StatusOK") =>
         /\ resp'.locations = SetUpdate(StringsSplit(db[id].locations), ls, rs)
         /\ db'[id].locations = StringsJoin(resp'.locations)]_vars

\* this step is a PATCH of id that added the one location x and succeeded
AddStep(id, x) ==
  /\ reqs' = reqs + 1
  /\ resp' = Response("PATCH", id, "StatusOK", resp'.locations)
  /\ req' = Body(<<x>>, <<>>)

\* the request before was a PATCH of id that added the one location x and
\* succeeded
AddedBefore(id, x) ==
  /\ resp = Response("PATCH", id, "StatusOK", resp.locations)
  /\ req = Body(<<x>>, <<>>)

\* C13: after two updates in a row that each add the one location x, the
\* location set of the subscription names x once, whatever it was before
C13_IdempotentAdd ==
  [][\A id \in Ids, x \in Locations :
       (AddedBefore(id, x) /\ AddStep(id, x)) =>
         /\ Count(StringsSplit(db'[id].locations), x) = 1
         /\ Count(resp'.locations, x) = 1]_vars

\* this step answered a request of kind op that named id
Answered(op, id) == reqs' = reqs + 1 /\ resp'.op = op /\ resp'.id = id

\* C14: an update of an id that has no row is answered with the not-found
\* status and changes neither the table nor the buckets
C14_UpdateUnknownNotFound ==
  [][\A id \in RequestIds :
       (Answered("PATCH", id) /\ Row(db, id) = NoRow) =>
         /\ resp'.status = "StatusNotFound"
         /\ db' = db
         /\ subscriptions' = subscriptions]_vars

\* C15: a remove of an id that has no row, never registered or deleted before,
\* is answered with the not-found status
C15_RemoveUnknownNotFound ==
  [][\A id \in RequestIds :
       (Answered("DELETE", id) /\ Row(db, id) = NoRow) =>
         resp'.status = "StatusNotFound"]_vars

\* the slice subs of the round of l, given the buckets subs and the slices sn
ViewIn(subs, sn, l) ==
  IF sn[l].shared THEN SubSeq(subs[l].arr, 1, sn[l].len) ELSE sn[l].arr

\* C16: the list a round delivers to stays what it was when the round took
\* it: no step made while the round is on changes, drops, repeats or blanks
\* an entry of it
C16_SnapshotSemantics ==
  [][\A l \in Locations :
       (disp[l].pc = "round" /\ disp'[l].pc = "round") =>
         ViewIn(subscriptions', snap', l) = View(l)]_vars

\* run r of l exists and is at pc
RunAt(l, r, pc) == r \in 1..Len(runs[l]) /\ runs[l][r].pc = pc

\* C17: a run that has reached its send on the channel returns in the end,
\* whatever the dispatcher of its location is doing (unless the process dies)
C17_EmissionReturns ==
  \A l \in Locations : \A r \in 1..ShutdownTicks :
    RunAt(l, r, "send") ~> (RunAt(l, r, "done") \/ crashed)

C20_NoNewRoundAfterShutdown ==
  [][ctxDone =>
       \A l \in Locations :
         /\ ~(disp[l].pc = "listen" /\ disp'[l].pc = "round")
         /\ (disp[l].pc = "round" /\ disp'[l].pc # "round") => RoundComplete(l)]_vars

\* C18: the run the scheduler of a location starts at once when the process
\* starts, the first run of the location, stores its summary and returns
\* without sending it to the dispatcher, also when the table is loaded before
\* the run comes to the check of the bucket
C18_WarmUpDoesNotDeliver ==
  \A l \in Locations : ~RunAt(l, 1, "send")

\* every run of l started so far has returned
RunsStopped(l) == \A r \in 1..Len(runs[l]) : runs[l][r].pc = "done"

\* C21: when a round of l ends after the runs of l have stopped, the summary
\* it carried is the one the cache holds for l: the last round never leaves
\* the subscribers with an older summary than the stored one
C21_LatestSummary ==
  [][\A l \in Locations :
       (disp[l].pc = "round" /\ disp'[l].pc = "listen" /\ RunsStopped(l)) =>
         disp[l].payload.summary = Load(summaries, l)]_vars

\* the number of entries of id that an incremental update of the index leaves
\* in bucket l: none when l is removed, one more when l is newly added, else
\* as many as before
IncrementalCount(existing, ls, rs, l, before) ==
  IF Contains(rs, l) THEN 0
  ELSE IF Contains(ls, l) /\ ~Contains(existing, l) THEN before + 1
  ELSE before

\* C22: an update that succeeds adds an entry of the subscription to the
\* buckets of the locations newly added only, one each, and empties the
\* buckets of the removed locations of its entries
C22_IncrementalIndexUpdate ==
  [][\A id \in Ids, cap \in Caps, ls \in LocLists, rs \in LocLists :
       (updateRegisteredSubscription(id, cap, ls, rs) /\ resp'.status = "StatusOK") =>
         \A l \in Locations :
           Cardinality(EntriesIn(subscriptions', l, id)) =
             IncrementalCount(StringsSplit(db[id].locations), ls, rs, l,
                              Cardinality(EntriesIn(subscriptions, l, id)))]_vars

\* C23: a delivery call to a subscription, in a round that started after the
\* last update of it returned, uses the capability that update stored, in the
\* round of every location
C23_CapabilityReplaced ==
  \A l \in Locations : \A n \in 1..Len(calls[l]) :
    Row(disp[l].startDb, calls[l][n].id) # NoRow =>
      calls[l][n].cap = Row(disp[l].startDb, calls[l][n].id).json

\* the last request was an update of id with no addLocations and
\* removeLocations = [x] that succeeded, and the round of l started after it
\* was answered
RemovedBefore(l, id, x) ==
  /\ resp = Response("PATCH", id, "StatusOK", resp.locations)
  /\ req = Body(<<>>, <<x>>)
  /\ disp[l].pc = "round"
  /\ disp[l].startDb = db

\* C24: in rounds that start after update(id, removeLocations = [x]) returned,
\* the round of x makes no call to id and the round of a location that stays
\* in the location set of id makes one
C24_RemovedLocationOnly ==
  \A x \in Locations, id \in Ids, l \in Locations :
    RemovedBefore(l, id, x) =>
      /\ l = x => CallsTo(l, id) = {}
      /\ (l # x /\ RoundComplete(l) /\ Contains(resp.locations, l)) =>
           Cardinality(CallsTo(l, id)) = 1

\* C25: a run the weather API answered with a status that is not 2xx returns
\* at once, without calling the summarization, storing or sending
C25_BadStatusIsFailure ==
  [][\A l \in Locations : \A r \in 1..Len(runs[l]) :
       (runs[l][r].pc = "fetched" /\ runs[l][r].badStatus /\ Steps(l, r)) =>
         /\ runs'[l][r].pc = "done"
         /\ summaries' = summaries
         /\ disp' = disp]_vars

\* the subscriptions registered for l: those with a row that names l
RegisteredSubscribers(l) == {id \in Ids : RegisteredFor(db, id, l)}

\* C26: a run whose summarization succeeded stores its summary, and then
\* sends it on the channel if l has a registered subscriber at that moment,
\* and returns at once if l has none
C26_EmissionGated ==
  [][\A l \in Locations : \A r \in 1..Len(runs[l]) :
       (runs[l][r].pc = "generated" /\ runs[l][r].err = "" /\ Steps(l, r)) =>
         /\ Load(summaries', l) = runs[l][r].summary
         /\ RegisteredSubscribers(l) # {} => runs'[l][r] = Run("send", "", runs[l][r].summary)
         /\ RegisteredSubscribers(l) = {} => runs'[l][r].pc = "done"]_vars

\* the summaries the runs of l are offering on the channel
Offered(l) == {runs[l][r].summary : r \in {q \in 1..Len(runs[l]) : runs[l][q].pc = "send"}}

\* s was stored for l, and the cache holds what was stored for l last: s or a
\* summary stored after it
StoredBefore(l, s) ==
  /\ Contains(stored[l], s)
  /\ Load(summaries, l) = stored[l][Len(stored[l])]

\* C27: a summary offered to the dispatcher of l or carried by a round of l
\* was stored in the cache before, so the cache holds it or a summary stored
\* later, never an earlier one; and the round carries the summary it was sent
C27_SignalAfterStore ==
  /\ [](\A l \in Locations :
          /\ \A s \in Offered(l) : StoredBefore(l, s)
          /\ disp[l].pc = "round" => StoredBefore(l, disp[l].payload.summary))
  /\ [][\A l \in Locations : \A r \in 1..Len(runs[l]) :
          (runs[l][r].pc = "send" /\ Steps(l, r)) =>
            /\ disp'[l].pc = "round"
            /\ disp'[l].payload.summary = runs[l][r].summary
            /\ summaries' = summaries]_vars

\* C27 witness: a round of l carries "A" while the cache of l holds "B",
\* stored after "A"
C27_Witness ==
  \E l \in Locations :
    /\ disp[l].pc = "round"
    /\ disp[l].payload.summary = "A"
    /\ stored[l] = <<"A", "B">>
    /\ Load(summaries, l) = "B"

\* C28: the dispatcher of l leaves a round only when every goroutine of the
\* round is spawned and has returned from its delivery call, takes a signal
\* only when it is in no round, and has no delivery of l outstanding while it
\* waits for a signal: rounds of one location never overlap
C28_WaitForAll ==
  /\ [](\A l \in Locations :
          disp[l].pc = "listen" => (disp[l].pending = {} /\ calls[l] = <<>>))
  /\ [][\A l \in Locations :
          /\ (disp[l].pc = "round" /\ disp'[l].pc # "round") =>
               /\ disp[l].i > snap[l].len
               /\ disp[l].pending = {}
               /\ Len(calls[l]) = Len(disp[l].read)
          /\ \A r \in 1..Len(runs[l]) :
               (runs[l][r].pc = "send" /\ Steps(l, r)) =>
                 (disp[l].pc = "listen" /\ disp'[l].pc = "round")]_vars

\* C28 witness: a run of l is offering the next signal while the round of l
\* waits for a delivery call to return
C28_Witness ==
  \E l \in Locations :
    /\ disp[l].pc = "round"
    /\ disp[l].i > snap[l].len
    /\ disp[l].pending # {}
    /\ Offered(l) # {}

\* a register or update call is between Lock() and Unlock(), and its critical
\* section changes bucket l
InCriticalSection(l) == subscriptionsMutex.held /\ l \in subscriptionsMutex.touches

\* a run of l checks the length of bucket l after storing its summary
CountCheck(l) ==
  \E r \in 1..Len(runs[l]) : runs[l][r].pc = "generated" /\ runs[l][r].err = "" /\ Steps(l, r)

\* the dispatcher of l takes its slice of bucket l
Snapshot(l) == disp[l].pc = "listen" /\ disp'[l].pc = "round"

\* C29: the buckets change only inside a critical section, one call at a time,
\* and neither the subscriber-count check of a generator nor the snapshot of a
\* dispatcher reads a bucket while a register or update call is inside the
\* critical section that changes that bucket
C29_BucketMutualExclusion ==
  /\ [][subscriptions' # subscriptions =>
         (subscriptionsMutex.held /\ subscriptionsMutex'.held)]_vars
  /\ [][(~subscriptionsMutex.held /\ subscriptionsMutex'.held) =>
         subscriptions' = subscriptions]_vars
  /\ [][\A l \in Locations :
         InCriticalSection(l) => (~CountCheck(l) /\ ~Snapshot(l))]_vars

\* the round of l has started all its deliveries and waits for them
Waiting(l) == disp[l].pc = "round" /\ disp[l].i > snap[l].len /\ disp[l].pending # {}

\* C30: no step of a dispatcher or of its delivery goroutines takes or releases
\* the registry mutex; while a round waits for its deliveries a registration
\* can take the free mutex, and the call that holds it can go on to its end
C30_LockNotHeldAcrossDeliveries ==
  /\ [][\A l \in Locations :
         disp'[l] # disp[l] => subscriptionsMutex' = subscriptionsMutex]_vars
  /\ [](\A l \in Locations :
         (Waiting(l) /\ ~crashed /\ ~subscriptionsMutex.held /\ reqs < LockRequests) =>
           ENABLED RegisterLocked(LockRequests))
  /\ [](\A l \in Locations :
         (Waiting(l) /\ ~crashed /\ subscriptionsMutex.held) =>
           ENABLED (CriticalSection \/ Unlock))

C30_Witness ==
  \E l \in Locations :
    /\ Waiting(l)
    /\ ~subscriptionsMutex.held
    /\ resp.op = "POST"
    /\ resp.id > Len(disp[l].startDb)
    /\ EntriesOf(l, resp.id) # {}

\* the part of the state that belongs to the pipeline of location l
PipelineOf(l) == <<runs[l], disp[l], snap[l], calls[l], summaries[l], stored[l]>>

\* C31: a step of the pipeline of one location changes nothing in the pipeline
\* of another; every step of a location (a tick, the return of a fetch or of a
\* summarization, the store, the handoff, a delivery, the end of a round) can
\* be taken whatever the other locations are doing; and while the calls of
\* one location block for ever, every run and every round of the others ends
C31_CrossLocationIndependence ==
  /\ [][\A l \in Locations : \A k \in Locations \ {l} :
         PipelineOf(l)' # PipelineOf(l) => PipelineOf(k)' = PipelineOf(k)]_vars
  /\ [](\A l \in Locations : ~crashed =>
         /\ ENABLED Tick(l)
         /\ \A r \in 1..Len(runs[l]) :
              /\ runs[l][r].pc = "fetch" => ENABLED FetchReturns(l, r, FALSE)
              /\ runs[l][r].pc = "fetched" => ENABLED AfterFetch(l, r)
              /\ runs[l][r].pc = "generate" => ENABLED GenerateReturns(l, r, FALSE, "A")
              /\ runs[l][r].pc = "generated" => ENABLED AfterGenerate(l, r)
              /\ (runs[l][r].pc = "send" /\ disp[l].pc = "listen") => ENABLED Receive(l, r)
         /\ (disp[l].pc = "round" /\ disp[l].i <= snap[l].len) => ENABLED Spawn(l)
         /\ \A j \in disp[l].pending : ENABLED Deliver(l, j, TRUE)
         /\ RoundComplete(l) => ENABLED RoundDone(l))
  /\ \A l \in Locations \ {Blocked} :
       /\ \A r \in 1..GenTicks : RunAt(l, r, "fetch") ~> RunAt(l, r, "done")
       /\ (disp[l].pc = "round") ~> (disp[l].pc = "listen")

C31_Witness ==
  \E l \in Locations \ {Blocked} :
    /\ disp[Blocked].pc = "round"
    /\ disp[Blocked].pending # {}
    /\ RunsStopped(l)
    /\ RoundComplete(l)
    /\ Len(calls[l]) > 0

\* the runs of l that are blocked in the send on the channel of l
Sending(l) == {r \in 1..Len(runs[l]) : runs[l][r].pc = "send"}

\* C32: at every moment at most one run of a location is blocked offering a
\* summary on the channel of that location
C32_AtMostOnePendingSignal ==
  \A l \in Locations : Cardinality(Sending(l)) <= 1

\* the update calls for id
CallsFor(id) == {n \in 1..Len(updateCalls) : updateCalls[n].id = id}

\* C33: once two update calls for the same subscription, one adding x and the
\* other adding another location y, neither removing anything, have both
\* returned, the stored list of the subscription names both x and y
C33_ConcurrentAdditionsKept ==
  \A id \in Ids : \A m \in CallsFor(id) : \A n \in CallsFor(id) \ {m} :
    \A x \in Locations : \A y \in Locations \ {x} :
      (/\ db[id] # NoRow
       /\ CallsFor(id) = {m, n}
       /\ updateCalls[m].pc = "returned" /\ updateCalls[n].pc = "returned"
       /\ updateCalls[m].removeLocations = <<>> /\ updateCalls[n].removeLocations = <<>>
       /\ Contains(updateCalls[m].locations, x)
       /\ Contains(updateCalls[n].locations, y))
      => (/\ Contains(StringsSplit(db[id].locations), x)
          /\ Contains(StringsSplit(db[id].locations), y))

\* loadSubscriptions returns
Loads == ~loaded /\ loaded'

\* the entries of id among the elements es of a bucket
EntriesAmong(es, id) == {n \in 1..Len(es) : es[n].id = id}

\* C34: when loadSubscriptions returns after a restart, the bucket of every
\* location holds each subscription whose stored list names the location
\* once and no other subscription, and holds every subscription as many
\* times as the bucket of the process before the restart held it
C34_IndexRebuiltAtStartup ==
  [][Loads => \A l \in Locations : \A id \in Ids :
       /\ Cardinality(EntriesOf(l, id)') = IF RegisteredFor(db, id, l) THEN 1 ELSE 0
       /\ Cardinality(EntriesOf(l, id)') = Cardinality(EntriesAmong(previous[l], id))]_vars

\* the keys the stored list of a row names (the empty text names none)
PersistedKeys(row) ==
  IF row.locations = StringsJoin(<<>>) THEN {}
  ELSE {StringsSplit(row.locations)[n] : n \in 1..Len(StringsSplit(row.locations))}

\* the keys a request body names to be added
NamedKeys(body) == {body.locations[n] : n \in 1..Len(body.locations)}

\* C35: every key in the stored list of a subscription and every key of a
\* bucket that is not empty is a configured location, and a request that names
\* another key to be added is answered with an error and changes neither the
\* table nor the buckets
C35_OnlyConfiguredLocations ==
  /\ [](\A id \in Ids : db[id] # NoRow => PersistedKeys(db[id]) \subseteq Locations)
  /\ [](\A k \in Keys : subscriptions[k].len > 0 => k \in Locations)
  /\ [][(reqs' = reqs + 1 /\ ~(NamedKeys(req') \subseteq Locations)) =>
         (resp'.status # "StatusOK" /\ db' = db /\ subscriptions' = subscriptions)]_vars

\* the request has a body that cannot be decoded, or an id that is no identifier
Malformed(method, idOk, bodyOk) ==
  \/ method \in {"POST", "PATCH"} /\ ~bodyOk
  \/ method \in {"PATCH", "DELETE"} /\ ~idOk

\* C36: a create or update request whose body cannot be decoded, and an
\* update or delete request whose id is no identifier, is answered with a
\* caller error and leaves the table, the buckets and the cache as they were
C36_MalformedRejected ==
  [][(reqs' = reqs + 1 /\ Malformed(resp'.op, req'.idOk, req'.decoded)) =>
       /\ resp'.status \in {"StatusBadRequest", "StatusNotFound"}
       /\ db' = db
       /\ subscriptions' = subscriptions
       /\ summaries' = summaries]_vars

C36_Witness ==
  /\ resp.op = "PATCH"
  /\ resp.status = "StatusBadRequest"
  /\ \E id \in Ids : db[id] # NoRow
  /\ \E l \in Locations : subscriptions[l].len > 0 /\ Load(summaries, l) # Absent

\* C37: a register call whose INSERT returns an error, and an update call
\* whose SELECT, Scan or UPDATE returns an error, is answered with an error
\* and leaves the buckets and the table as they were; so every entry of a
\* bucket belongs to a subscription whose row was written
C37_NoIndexChangeOnFailedWrite ==
  /\ [][\A cap \in Caps, ls \in LocLists :
         registerSubscriptionErr(cap, ls, ErrDb) =>
           /\ resp'.status = "StatusBadRequest"
           /\ subscriptions' = subscriptions
           /\ db' = db]_vars
  /\ [][\A id \in RequestIds, cap \in Caps, ls \in LocLists, rs \in LocLists :
         \A queryErr \in DbErrors, execErr \in DbErrors :
           (/\ queryErr # NoError \/ execErr # NoError \/ RowsScan(Row(db, id)) # NoError
            /\ updateRegisteredSubscriptionErr(id, cap, ls, rs, queryErr, execErr)) =>
             /\ resp'.status \in {"StatusNotFound", "StatusInternalServerError"}
             /\ subscriptions' = subscriptions
             /\ db' = db]_vars
  /\ [](\A k \in Keys : \A n \in 1..subscriptions[k].len : subscriptions[k].arr[n].id \in Ids)

C37_Witness ==
  /\ resp.op = "POST"
  /\ resp.status = "StatusBadRequest"
  /\ \E l \in Locations : subscriptions[l].len > 0
====
